---- MODULE Spec2Model ----
(***************************************************************************)
(* Shuffle (src/App.tsx): the text transformation of the Shuffle modal.    *)
(*                                                                         *)
(* A JavaScript string is a sequence of one-character strings, so that     *)
(* split, join, trim, replace, JSON.stringify and JSON.parse are computed  *)
(* character by character, as the code computes them.                      *)
(***************************************************************************)
EXTENDS Integers, Sequences, FiniteSets, TLC

VARIABLES editedText, format, preserveMargins, fontSize, clientWidth,
          canvas2d, mounted, transformed,
          editedTransformed, entries, shuffleOpen, copiedFormat,
          notificationVisible, notificationMessage, timers,
          selectedDate, dropIndicator, dataTransfer, pointer,
          editingEntry, editModal, resizing, optionsEntry, now,
          calendarVisible, calendarDate

vars == <<editedText, format, preserveMargins, fontSize, clientWidth,
          canvas2d, mounted, transformed,
          editedTransformed, entries, shuffleOpen, copiedFormat,
          notificationVisible, notificationMessage, timers,
          selectedDate, dropIndicator, dataTransfer, pointer,
          editingEntry, editModal, resizing, optionsEntry, now,
          calendarVisible, calendarDate>>

\* the state of the Shuffle modal
shuffleVars == <<editedText, format, preserveMargins, fontSize, clientWidth,
                 canvas2d, mounted, transformed, editedTransformed>>
\* the global notification of App and its pending setTimeout callbacks
notifVars == <<notificationVisible, notificationMessage, timers>>
\* the displayed date and the drag-and-drop in progress
dragVars == <<selectedDate, dropIndicator, dataTransfer, pointer>>
\* the Edit and Options modals and the clock that names new entries
editVars == <<editingEntry, editModal, resizing, optionsEntry, now>>
calendarVars == <<calendarVisible, calendarDate>>
\* the state of App outside the entries and the modals' own state
boardVars == <<dragVars, editVars, calendarVars>>

\* the state of App that an open Shuffle modal reads or sets
appVars == <<entries, shuffleOpen, copiedFormat, notifVars, boardVars>>

(***************************************************************************)
(* Bounds of the model.                                                    *)
(***************************************************************************)
MaxLen == 5
MaxJsonLen == 3
MaxEdgeLen == 4
MaxEntryLen == 3
MaxOutputEdits == 1
\* pending notification timers
MaxTimers == 2
\* the latest value of Date.now(), which names a new entry
MaxClock == 3
\* characters of the text of the Edit modal
MaxEditLen == 1
\* the years the calendar is turned to
MinYear == 2020
MaxYear == 2029

NL == "\n"
SP == " "
QUOTE == "\""
BSLASH == "\\"

\* characters the user types in the reflow specification
Chars == {"a", SP, NL}
\* characters the user types in the JSON specification
JsonChars == {"a", SP, NL, QUOTE, BSLASH}

RECURSIVE StringsUpTo(_, _)
StringsUpTo(alphabet, n) ==
  IF n = 0 THEN {<<>>}
  ELSE LET shorter == StringsUpTo(alphabet, n - 1)
       IN  shorter \cup {Append(s, c) : s \in {t \in shorter : Len(t) = n - 1}, c \in alphabet}

Texts == StringsUpTo(Chars, MaxLen)
JsonTexts == StringsUpTo(JsonChars, MaxJsonLen)

Formats == {"markdown", "latex", "json", "json-separated", "html"}

(***************************************************************************)
(* String primitives of JavaScript.                                        *)
(***************************************************************************)
IsWhitespace(c) == c \in {SP, NL}

\* String.prototype.split(sep) for a one-character separator
RECURSIVE SplitFrom(_, _, _, _)
SplitFrom(s, sep, i, cur) ==
  IF i > Len(s) THEN <<cur>>
  ELSE IF s[i] = sep THEN <<cur>> \o SplitFrom(s, sep, i + 1, <<>>)
  ELSE SplitFrom(s, sep, i + 1, Append(cur, s[i]))

Split(s, sep) == SplitFrom(s, sep, 1, <<>>)

\* Array.prototype.join(sep)
RECURSIVE Join(_, _)
Join(parts, sep) ==
  IF Len(parts) = 0 THEN <<>>
  ELSE IF Len(parts) = 1 THEN parts[1]
  ELSE parts[1] \o sep \o Join(Tail(parts), sep)

\* String.prototype.trim()
RECURSIVE TrimStart(_)
TrimStart(s) ==
  IF Len(s) > 0 /\ IsWhitespace(s[1]) THEN TrimStart(Tail(s)) ELSE s

RECURSIVE TrimEnd(_)
TrimEnd(s) ==
  IF Len(s) > 0 /\ IsWhitespace(s[Len(s)]) THEN TrimEnd(SubSeq(s, 1, Len(s) - 1)) ELSE s

Trim(s) == TrimEnd(TrimStart(s))

\* length of the run of line breaks that starts at position i
RECURSIVE RunOfBreaks(_, _)
RunOfBreaks(s, i) ==
  IF i <= Len(s) /\ s[i] = NL THEN 1 + RunOfBreaks(s, i + 1) ELSE 0

\* text.replace(/\n{3,}/g, '\n\n'): leftmost greedy matches, left to right
RECURSIVE NormalizeFrom(_, _)
NormalizeFrom(s, i) ==
  IF i > Len(s) THEN <<>>
  ELSE LET run == RunOfBreaks(s, i)
       IN  IF run >= 3 THEN <<NL, NL>> \o NormalizeFrom(s, i + run)
           ELSE <<s[i]>> \o NormalizeFrom(s, i + 1)

\* a normalizer that matches /\n{3}/g: three breaks at a time, not the whole run
RECURSIVE NormalizeThreeFrom(_, _)
NormalizeThreeFrom(s, i) ==
  IF i > Len(s) THEN <<>>
  ELSE IF RunOfBreaks(s, i) >= 3 THEN <<NL, NL>> \o NormalizeThreeFrom(s, i + 3)
  ELSE <<s[i]>> \o NormalizeThreeFrom(s, i + 1)

NormalizeThreeAtATime(s) == NormalizeThreeFrom(s, 1)

\* a normalizer that matches /\n{2,}/g
RECURSIVE NormalizeTwoFrom(_, _)
NormalizeTwoFrom(s, i) ==
  IF i > Len(s) THEN <<>>
  ELSE LET run == RunOfBreaks(s, i)
       IN  IF run >= 2 THEN <<NL>> \o NormalizeTwoFrom(s, i + run)
           ELSE <<s[i]>> \o NormalizeTwoFrom(s, i + 1)

NormalizeFromTwo(s) == NormalizeTwoFrom(s, 1)

Normalize(s) == NormalizeFrom(s, 1)

\* a replace without the g flag: only the first line break is replaced
RECURSIVE ReplaceFirstBreak(_)
ReplaceFirstBreak(s) ==
  IF Len(s) = 0 THEN <<>>
  ELSE IF s[1] = NL THEN <<"<", "b", "r", ">">> \o Tail(s)
  ELSE <<s[1]>> \o ReplaceFirstBreak(Tail(s))

\* s.replace(/\n/g, "<br>")
RECURSIVE ReplaceBreaks(_)
ReplaceBreaks(s) ==
  IF Len(s) = 0 THEN <<>>
  ELSE (IF s[1] = NL THEN <<"<", "b", "r", ">">> ELSE <<s[1]>>) \o ReplaceBreaks(Tail(s))

(***************************************************************************)
(* JSON.stringify and JSON.parse on the objects the program builds: an     *)
(* object is the sequence of its <<key, value>> members in insertion order *)
(* (all keys are non-numeric strings, so insertion order is key order).    *)
(***************************************************************************)
Digit(d) == CASE d = 0 -> "0" [] d = 1 -> "1" [] d = 2 -> "2" [] d = 3 -> "3"
              [] d = 4 -> "4" [] d = 5 -> "5" [] d = 6 -> "6" [] d = 7 -> "7"
              [] d = 8 -> "8" [] d = 9 -> "9"

\* String(n) for a non-negative integer
RECURSIVE NumberToString(_)
NumberToString(n) ==
  IF n < 10 THEN <<Digit(n)>> ELSE Append(NumberToString(n \div 10), Digit(n % 10))

\* obj[key] = value
RECURSIVE SetProperty(_, _, _)
SetProperty(obj, key, value) ==
  IF Len(obj) = 0 THEN <<<<key, value>>>>
  ELSE IF obj[1][1] = key THEN <<<<key, value>>>> \o Tail(obj)
  ELSE <<obj[1]>> \o SetProperty(Tail(obj), key, value)

\* an escaping that leaves the backslash as it is
RECURSIVE EscapeCharsKeepingBackslash(_)
EscapeCharsKeepingBackslash(s) ==
  IF Len(s) = 0 THEN <<>>
  ELSE (CASE s[1] = QUOTE -> <<BSLASH, QUOTE>>
          [] s[1] = NL -> <<BSLASH, "n">>
          [] OTHER -> <<s[1]>>) \o EscapeCharsKeepingBackslash(Tail(s))

\* the quoted form of a string: QuoteJSONString of ECMA-262
RECURSIVE EscapeChars(_)
EscapeChars(s) ==
  IF Len(s) = 0 THEN <<>>
  ELSE (CASE s[1] = QUOTE -> <<BSLASH, QUOTE>>
          [] s[1] = BSLASH -> <<BSLASH, BSLASH>>
          [] s[1] = NL -> <<BSLASH, "n">>
          [] OTHER -> <<s[1]>>) \o EscapeChars(Tail(s))

QuoteJSONString(s) == <<QUOTE>> \o EscapeChars(s) \o <<QUOTE>>

RECURSIVE Spaces(_)
Spaces(n) == IF n = 0 THEN <<>> ELSE <<SP>> \o Spaces(n - 1)

RECURSIVE StringifyMembers(_, _)
StringifyMembers(obj, indent) ==
  IF Len(obj) = 0 THEN <<>>
  ELSE LET member == IF indent = 0
                     THEN QuoteJSONString(obj[1][1]) \o <<":">> \o QuoteJSONString(obj[1][2])
                     ELSE Spaces(indent) \o QuoteJSONString(obj[1][1]) \o <<":", SP>>
                          \o QuoteJSONString(obj[1][2])
           sep == IF Len(obj) = 1 THEN <<>>
                  ELSE IF indent = 0 THEN <<",">> ELSE <<",", NL>>
       IN  member \o sep \o StringifyMembers(Tail(obj), indent)

\* JSON.stringify(obj, null, indent) for an object of string members
JSONStringify(obj, indent) ==
  IF Len(obj) = 0 THEN <<"{", "}">>
  ELSE IF indent = 0 THEN <<"{">> \o StringifyMembers(obj, 0) \o <<"}">>
  ELSE <<"{", NL>> \o StringifyMembers(obj, indent) \o <<NL, "}">>

\* JSON.parse, for a text that is an object of string members
Failed == [ok |-> FALSE, val |-> <<>>, next |-> 0]

RECURSIVE SkipWhitespace(_, _)
SkipWhitespace(s, i) ==
  IF i <= Len(s) /\ s[i] \in {SP, NL} THEN SkipWhitespace(s, i + 1) ELSE i

\* the characters of a string literal from position i up to its closing quote
RECURSIVE ParseStringBody(_, _, _)
ParseStringBody(s, i, acc) ==
  IF i > Len(s) THEN Failed
  ELSE IF s[i] = QUOTE THEN [ok |-> TRUE, val |-> acc, next |-> i + 1]
  ELSE IF s[i] = NL THEN Failed
  ELSE IF s[i] = BSLASH
       THEN IF i + 1 > Len(s) THEN Failed
            ELSE IF s[i + 1] = QUOTE THEN ParseStringBody(s, i + 2, Append(acc, QUOTE))
            ELSE IF s[i + 1] = BSLASH THEN ParseStringBody(s, i + 2, Append(acc, BSLASH))
            ELSE IF s[i + 1] = "n" THEN ParseStringBody(s, i + 2, Append(acc, NL))
            ELSE IF s[i + 1] = "/" THEN ParseStringBody(s, i + 2, Append(acc, "/"))
            ELSE Failed
  ELSE ParseStringBody(s, i + 1, Append(acc, s[i]))

ParseString(s, i) ==
  IF i <= Len(s) /\ s[i] = QUOTE THEN ParseStringBody(s, i + 1, <<>>) ELSE Failed

\* the members of an object from position i (the start of a key) to the end
RECURSIVE ParseMembers(_, _, _)
ParseMembers(s, i, obj) ==
  LET key == ParseString(s, i)
      colon == SkipWhitespace(s, key.next)
      value == ParseString(s, SkipWhitespace(s, colon + 1))
      after == SkipWhitespace(s, value.next)
  IN  IF ~key.ok \/ colon > Len(s) THEN Failed
      ELSE IF s[colon] # ":" \/ ~value.ok \/ after > Len(s) THEN Failed
      ELSE IF s[after] = ","
           THEN ParseMembers(s, SkipWhitespace(s, after + 1),
                             SetProperty(obj, key.val, value.val))
      ELSE IF s[after] = "}" /\ SkipWhitespace(s, after + 1) > Len(s)
           THEN [ok |-> TRUE, val |-> SetProperty(obj, key.val, value.val), next |-> Len(s) + 1]
      ELSE Failed

JSONParse(s) ==
  LET open == SkipWhitespace(s, 1)
      first == SkipWhitespace(s, open + 1)
  IN  IF open > Len(s) \/ first > Len(s) THEN Failed
      ELSE IF s[open] # "{" THEN Failed
      ELSE IF s[first] = "}"
           THEN IF SkipWhitespace(s, first + 1) > Len(s)
                THEN [ok |-> TRUE, val |-> <<>>, next |-> Len(s) + 1] ELSE Failed
      ELSE ParseMembers(s, first, <<>>)

(***************************************************************************)
(* transformText (App.tsx 49-90)                                           *)
(***************************************************************************)
\* a numbering of the keys that starts at 0
RECURSIVE LinesObjectFromZero(_, _, _)
LinesObjectFromZero(lines, index, obj) ==
  IF index >= Len(lines) THEN obj
  ELSE LinesObjectFromZero(lines, index + 1,
                           SetProperty(obj, <<"l", "i", "n", "e", SP>> \o NumberToString(index),
                                       lines[index + 1]))

\* lines.forEach((line, index) => linesObject[`line ${index + 1}`] = line)
RECURSIVE LinesObject(_, _, _)
LinesObject(lines, index, obj) ==
  IF index >= Len(lines) THEN obj
  ELSE LinesObject(lines, index + 1,
                   SetProperty(obj, <<"l", "i", "n", "e", SP>> \o NumberToString(index + 1),
                               lines[index + 1]))

\* a hard break that tests the line, not the trimmed line
HardBreakUntrimmed(line) == IF Len(line) > 0 THEN line \o <<SP, SP>> ELSE line

\* line => line.trim() ? line + '  ' : line
HardBreak(line) == IF Len(Trim(line)) > 0 THEN line \o <<SP, SP>> ELSE line

MapHardBreak(lines) == [i \in 1..Len(lines) |-> HardBreak(lines[i])]

\* the opening written without its backslash
BeginDocumentUnescaped == <<"b", "e", "g", "i", "n", "{", "d", "o", "c", "u", "m", "e", "n", "t", "}">>

BeginDocument == <<BSLASH, "b", "e", "g", "i", "n", "{", "d", "o", "c", "u", "m", "e", "n", "t", "}">>
EndDocument == <<BSLASH, "e", "n", "d", "{", "d", "o", "c", "u", "m", "e", "n", "t", "}">>
DivOpen == <<"<", "d", "i", "v", ">">>
DivClose == <<"<", "/", "d", "i", "v", ">">>
ContentKey == <<"c", "o", "n", "t", "e", "n", "t">>

\* a transformText whose markdown case tests the flag the wrong way round
transformTextFlagInverted(text, fmt, preserve) ==
  LET normalizedText == Normalize(text)
  IN  CASE fmt = "markdown" ->
             IF ~preserve THEN normalizedText
             ELSE Join(MapHardBreak(Split(normalizedText, NL)), <<NL>>)
        [] fmt = "latex" -> BeginDocument \o <<NL>> \o normalizedText \o <<NL>> \o EndDocument
        [] fmt = "json" ->
             JSONStringify(<<<<ContentKey, normalizedText>>>>, IF preserve THEN 2 ELSE 0)
        [] fmt = "json-separated" ->
             JSONStringify(LinesObject(Split(normalizedText, NL), 0, <<>>),
                           IF preserve THEN 2 ELSE 0)
        [] fmt = "html" -> DivOpen \o ReplaceBreaks(normalizedText) \o DivClose
        [] OTHER -> normalizedText

transformText(text, fmt, preserve) ==
  LET normalizedText == Normalize(text)
  IN  CASE fmt = "markdown" ->
             IF preserve THEN normalizedText
             ELSE Join(MapHardBreak(Split(normalizedText, NL)), <<NL>>)
        [] fmt = "latex" -> BeginDocument \o <<NL>> \o normalizedText \o <<NL>> \o EndDocument
        [] fmt = "json" ->
             JSONStringify(<<<<ContentKey, normalizedText>>>>, IF preserve THEN 2 ELSE 0)
        [] fmt = "json-separated" ->
             JSONStringify(LinesObject(Split(normalizedText, NL), 0, <<>>),
                           IF preserve THEN 2 ELSE 0)
        [] fmt = "html" -> DivOpen \o ReplaceBreaks(normalizedText) \o DivClose
        [] OTHER -> normalizedText

(***************************************************************************)
(* ShuffleModal.getTransformedText (App.tsx 384-475)                       *)
(***************************************************************************)
\* Advance width of a glyph of the sans-serif face, in quarters of an em.
QuarterEms(c) == IF c = SP THEN 1 ELSE 2

RECURSIVE SumQuarterEms(_)
SumQuarterEms(s) == IF Len(s) = 0 THEN 0 ELSE QuarterEms(s[1]) + SumQuarterEms(Tail(s))

\* context.measureText(text).width with font `${size}px sans-serif`, in
\* quarters of a pixel
getTextWidth(s, size) == size * SumQuarterEms(s)

\* textArea.clientWidth - 32, in quarters of a pixel
availableWidth(width) == 4 * (width - 32)

\* a loop that breaks the line when the extended line fills the width exactly
RECURSIVE BuildLinesStrict(_, _, _, _, _, _)
BuildLinesStrict(words, i, lines, currentLine, avail, size) ==
  IF i > Len(words)
  THEN IF Len(currentLine) > 0 THEN Append(lines, currentLine) ELSE lines
  ELSE LET word == words[i]
           testLine == IF Len(currentLine) > 0 THEN currentLine \o <<SP>> \o word ELSE word
       IN  IF getTextWidth(testLine, size) < avail
           THEN BuildLinesStrict(words, i + 1, lines, testLine, avail, size)
           ELSE BuildLinesStrict(words, i + 1,
                                 IF Len(currentLine) > 0 THEN Append(lines, currentLine)
                                 ELSE lines,
                                 word, avail, size)

\* a loop that pushes the current line without testing that it is not empty
RECURSIVE BuildLinesPushingEmpty(_, _, _, _, _, _)
BuildLinesPushingEmpty(words, i, lines, currentLine, avail, size) ==
  IF i > Len(words)
  THEN IF Len(currentLine) > 0 THEN Append(lines, currentLine) ELSE lines
  ELSE LET word == words[i]
           testLine == IF Len(currentLine) > 0 THEN currentLine \o <<SP>> \o word ELSE word
       IN  IF getTextWidth(testLine, size) <= avail
           THEN BuildLinesPushingEmpty(words, i + 1, lines, testLine, avail, size)
           ELSE BuildLinesPushingEmpty(words, i + 1, Append(lines, currentLine),
                                       word, avail, size)

\* a loop that forgets to start the new line with the word that did not fit
RECURSIVE BuildLinesLosingWord(_, _, _, _, _, _)
BuildLinesLosingWord(words, i, lines, currentLine, avail, size) ==
  IF i > Len(words)
  THEN IF Len(currentLine) > 0 THEN Append(lines, currentLine) ELSE lines
  ELSE LET word == words[i]
           testLine == IF Len(currentLine) > 0 THEN currentLine \o <<SP>> \o word ELSE word
       IN  IF getTextWidth(testLine, size) <= avail
           THEN BuildLinesLosingWord(words, i + 1, lines, testLine, avail, size)
           ELSE BuildLinesLosingWord(words, i + 1,
                                     IF Len(currentLine) > 0 THEN Append(lines, currentLine)
                                     ELSE lines,
                                     <<>>, avail, size)

\* a loop that measures the word alone, not the line extended by the word
RECURSIVE BuildLinesMeasuringWord(_, _, _, _, _, _)
BuildLinesMeasuringWord(words, i, lines, currentLine, avail, size) ==
  IF i > Len(words)
  THEN IF Len(currentLine) > 0 THEN Append(lines, currentLine) ELSE lines
  ELSE LET word == words[i]
           testLine == IF Len(currentLine) > 0 THEN currentLine \o <<SP>> \o word ELSE word
       IN  IF getTextWidth(word, size) <= avail
           THEN BuildLinesMeasuringWord(words, i + 1, lines, testLine, avail, size)
           ELSE BuildLinesMeasuringWord(words, i + 1,
                                        IF Len(currentLine) > 0 THEN Append(lines, currentLine)
                                        ELSE lines,
                                        word, avail, size)

\* the for-loop over the words of a paragraph, from word i on
RECURSIVE BuildLines(_, _, _, _, _, _)
BuildLines(words, i, lines, currentLine, avail, size) ==
  IF i > Len(words)
  THEN IF Len(currentLine) > 0 THEN Append(lines, currentLine) ELSE lines
  ELSE LET word == words[i]
           testLine == IF Len(currentLine) > 0 THEN currentLine \o <<SP>> \o word ELSE word
       IN  IF getTextWidth(testLine, size) <= avail
           THEN BuildLines(words, i + 1, lines, testLine, avail, size)
           ELSE BuildLines(words, i + 1,
                           IF Len(currentLine) > 0 THEN Append(lines, currentLine) ELSE lines,
                           word, avail, size)

\* the lines emitted for one non-blank paragraph
paragraphLines(paragraph, avail, size) ==
  BuildLines(Split(paragraph, SP), 1, <<>>, <<>>, avail, size)

\* a paragraph whose lines are joined by a plain line break in every format
transformParagraphPlainJoin(paragraph, fmt, avail, size) ==
  IF Len(Trim(paragraph)) = 0 THEN <<>>
  ELSE Join(paragraphLines(paragraph, avail, size), <<NL>>)

transformParagraph(paragraph, fmt, avail, size) ==
  IF Len(Trim(paragraph)) = 0 THEN <<>>
  ELSE Join(paragraphLines(paragraph, avail, size),
            IF fmt = "markdown" THEN <<SP, SP, NL>> ELSE <<NL>>)

\* `result`: the reflowed text before the format is applied
reflowResult(text, fmt, avail, size) ==
  LET paragraphs == Split(text, NL)
  IN  Join([i \in 1..Len(paragraphs) |-> transformParagraph(paragraphs[i], fmt, avail, size)],
           <<NL, NL>>)

\* a filter that keeps every line
FilterNothing(lines) == lines

\* result.split("\n").filter(line => line.trim().length > 0)
RECURSIVE FilterNonBlank(_)
FilterNonBlank(lines) ==
  IF Len(lines) = 0 THEN <<>>
  ELSE (IF Len(Trim(lines[1])) > 0 THEN <<lines[1]>> ELSE <<>>) \o FilterNonBlank(Tail(lines))

\* allLines.forEach((line, index) => linesObject[`line ${index + 1}`] = line.trim())
MapTrim(lines) == [i \in 1..Len(lines) |-> Trim(lines[i])]

\* a switch whose default case falls into the html case
serializeReflowedDefaultHtml(result, fmt) ==
  CASE fmt = "markdown" -> result
    [] fmt = "latex" -> BeginDocument \o <<NL>> \o result \o <<NL>> \o EndDocument
    [] fmt = "json" -> JSONStringify(<<<<ContentKey, result>>>>, 0)
    [] fmt = "json-separated" ->
         JSONStringify(LinesObject(MapTrim(FilterNonBlank(Split(result, NL))), 0, <<>>), 2)
    [] OTHER -> DivOpen \o ReplaceBreaks(result) \o DivClose

serializeReflowed(result, fmt) ==
  CASE fmt = "markdown" -> result
    [] fmt = "latex" -> BeginDocument \o <<NL>> \o result \o <<NL>> \o EndDocument
    [] fmt = "json" -> JSONStringify(<<<<ContentKey, result>>>>, 0)
    [] fmt = "json-separated" ->
         JSONStringify(LinesObject(MapTrim(FilterNonBlank(Split(result, NL))), 0, <<>>), 2)
    [] fmt = "html" -> DivOpen \o ReplaceBreaks(result) \o DivClose
    [] OTHER -> result

\* TRUE when the margin-preserving reflow branch is the one taken
reflowApplies(preserve, hasRef, hasContext) == preserve /\ hasRef /\ hasContext

\* a getTransformedText that does not test the canvas context
getTransformedTextUncheckedContext(text, fmt, preserve, size, hasRef, hasContext, width) ==
  IF ~preserve THEN transformText(text, fmt, TRUE)
  ELSE IF hasRef
       THEN serializeReflowed(reflowResult(text, fmt, availableWidth(width), size), fmt)
       ELSE transformText(text, fmt, FALSE)

getTransformedText(text, fmt, preserve, size, hasRef, hasContext, width) ==
  IF ~preserve THEN transformText(text, fmt, TRUE)
  ELSE IF hasRef
       THEN IF ~hasContext THEN transformText(text, fmt, FALSE)
            ELSE serializeReflowed(reflowResult(text, fmt, availableWidth(width), size), fmt)
       ELSE transformText(text, fmt, FALSE)

(***************************************************************************)
(* State of an open Shuffle modal.                                         *)
(***************************************************************************)
MIN_FONT_SIZE == 8
MAX_FONT_SIZE == 36

\* values typed into the font size field
TypedSizes == {4, 8, 16}
\* font sizes of the entry the modal is opened on
EntryFontSizes == {8, 16}
\* widths the layout gives the original-text area, in pixels: one narrower
\* than the 32px padding, and one that holds three letters at 16px, so that
\* texts of a few characters wrap (the loop only compares measured widths
\* with the available width, so the scale is immaterial)
ClientWidths == {24, 56}

TypeOK ==
  /\ format \in Formats
  /\ preserveMargins \in BOOLEAN
  /\ fontSize \in MIN_FONT_SIZE..MAX_FONT_SIZE
  /\ clientWidth \in ClientWidths
  /\ canvas2d \in BOOLEAN
  /\ mounted \in BOOLEAN

\* the value the effect of App.tsx 480-484 stores
Recomputed(text, fmt, preserve, size, width) ==
  getTransformedText(text, fmt, preserve, size, mounted, canvas2d, width)

\* an Entry of the list of App
Entry(id, text, size) ==
  [id |-> id, title |-> <<"t">>, text |-> text, date |-> "2025-01-01",
   width |-> 1125, fontSize |-> size]

\* the entries of the list while the modal is open
SeedEntries == <<Entry(1, <<"a">>, 16), Entry(2, <<"a", SP, "a">>, 8)>>

\* entries.find((entry) => entry.text === text)?.fontSize || 16
RECURSIVE MatchingFontSize(_, _)
MatchingFontSize(list, text) ==
  IF Len(list) = 0 THEN 16
  ELSE IF list[1].text = text THEN list[1].fontSize
  ELSE MatchingFontSize(Tail(list), text)

\* selectedDate is null
NoDate == ""
\* new Date().toISOString().split("T")[0]
Today == "2025-01-01"
\* dropIndicator is null
NoIndicator == -1
\* no drag is in progress
NoId == 0
\* the drag pointer is not over the grid
Outside == <<"outside", -1, 0>>

\* useState initialisers of App for the board, the modals and the notification
Idle ==
  /\ notificationVisible = FALSE
  /\ notificationMessage = ""
  /\ timers = 0
  /\ selectedDate = NoDate
  /\ dropIndicator = NoIndicator
  /\ dataTransfer = NoId
  /\ pointer = Outside
  /\ editingEntry = <<>>
  /\ editModal = <<>>
  /\ resizing = <<>>
  /\ optionsEntry = <<>>
  /\ now = 2
  /\ calendarVisible = FALSE
  /\ calendarDate = <<2025, 0>>

\* setNotificationVisible(true); setTimeout(() => setNotificationVisible(false), 2000)
ShowNotification ==
  /\ timers < MaxTimers
  /\ notificationVisible' = TRUE
  /\ timers' = timers + 1

\* the font size limit notification of handleFontSizeChange, in both modals
LimitNotification(newSize) ==
  IF newSize < 8
  THEN /\ notificationMessage' = "Font size limited to minimum of 8px"
       /\ ShowNotification
  ELSE IF newSize > 36
       THEN /\ notificationMessage' = "Font size limited to maximum of 36px"
            /\ ShowNotification
       ELSE UNCHANGED notifVars

\* useState initialisers of the first render: originalTextRef.current is null
InitOn(texts, lists) ==
  /\ Idle
  /\ entries \in lists
  /\ shuffleOpen = TRUE
  /\ copiedFormat = ""
  /\ editedTransformed = <<>>
  /\ editedText \in texts
  /\ format = "markdown"
  /\ preserveMargins = TRUE
  /\ fontSize = MatchingFontSize(entries, editedText)
  /\ clientWidth \in ClientWidths
  /\ canvas2d \in BOOLEAN
  /\ mounted = FALSE
  /\ transformed = getTransformedText(editedText, format, preserveMargins, fontSize,
                                      FALSE, canvas2d, clientWidth)

\* the textarea is attached and the effects of the first render run
Mount ==
  /\ shuffleOpen
  /\ ~mounted
  /\ mounted' = TRUE
  /\ transformed' = getTransformedText(editedText, format, preserveMargins, fontSize,
                                       TRUE, canvas2d, clientWidth)
  /\ editedTransformed' = transformed'
  /\ UNCHANGED <<editedText, format, preserveMargins, fontSize, clientWidth, canvas2d,
               appVars>>

\* onChange of the original-text area: a character typed at the end
TypeChar(c, bound) ==
  /\ shuffleOpen
  /\ mounted
  /\ Len(editedText) < bound
  /\ editedText' = Append(editedText, c)
  /\ transformed' = Recomputed(editedText', format, preserveMargins, fontSize, clientWidth)
  /\ editedTransformed' = transformed'
  /\ UNCHANGED <<format, preserveMargins, fontSize, clientWidth, canvas2d, mounted,
               appVars>>

\* onChange of the original-text area: the last character deleted
DeleteChar ==
  /\ shuffleOpen
  /\ mounted
  /\ Len(editedText) > 0
  /\ editedText' = SubSeq(editedText, 1, Len(editedText) - 1)
  /\ transformed' = Recomputed(editedText', format, preserveMargins, fontSize, clientWidth)
  /\ editedTransformed' = transformed'
  /\ UNCHANGED <<format, preserveMargins, fontSize, clientWidth, canvas2d, mounted,
               appVars>>

\* onChange of the format select
SetFormat(f) ==
  /\ shuffleOpen
  /\ mounted
  /\ f # format
  /\ format' = f
  /\ transformed' = Recomputed(editedText, f, preserveMargins, fontSize, clientWidth)
  /\ editedTransformed' = transformed'
  /\ UNCHANGED <<editedText, preserveMargins, fontSize, clientWidth, canvas2d, mounted,
               appVars>>

\* onChange of the Preserve margins checkbox
SetPreserveMargins ==
  /\ shuffleOpen
  /\ mounted
  /\ preserveMargins' = ~preserveMargins
  /\ transformed' = Recomputed(editedText, format, preserveMargins', fontSize, clientWidth)
  /\ editedTransformed' = transformed'
  /\ UNCHANGED <<editedText, format, fontSize, clientWidth, canvas2d, mounted,
               appVars>>

\* handleFontSizeChange of the Shuffle modal with a number typed
handleFontSizeChange(newSize) ==
  /\ shuffleOpen
  /\ mounted
  /\ fontSize' = IF newSize < MIN_FONT_SIZE THEN MIN_FONT_SIZE
                 ELSE IF newSize > MAX_FONT_SIZE THEN MAX_FONT_SIZE ELSE newSize
  /\ fontSize' # fontSize \/ newSize < MIN_FONT_SIZE \/ newSize > MAX_FONT_SIZE
  /\ LimitNotification(newSize)
  /\ transformed' = Recomputed(editedText, format, preserveMargins, fontSize', clientWidth)
  /\ editedTransformed' = transformed'
  /\ UNCHANGED <<editedText, format, preserveMargins, clientWidth, canvas2d, mounted,
               entries, shuffleOpen, copiedFormat, boardVars>>

\* a resize drag of the original-text area changes its laid-out width
Resize(w) ==
  /\ shuffleOpen
  /\ mounted
  /\ w # clientWidth
  /\ clientWidth' = w
  /\ transformed' = Recomputed(editedText, format, preserveMargins, fontSize, w)
  /\ editedTransformed' = transformed'
  /\ UNCHANGED <<editedText, format, preserveMargins, fontSize, canvas2d, mounted,
               appVars>>

\* onChange of the transformed-text area: a character typed at the end
setEditedTransformed(c, bound) ==
  /\ shuffleOpen
  /\ mounted
  /\ Len(editedTransformed) < Len(transformed) + bound
  /\ editedTransformed' = Append(editedTransformed, c)
  /\ UNCHANGED <<editedText, format, preserveMargins, fontSize, clientWidth, canvas2d,
                 mounted, transformed, appVars>>

\* format.charAt(0).toUpperCase() + format.slice(1)
formatDisplay(f) ==
  CASE f = "markdown" -> "Markdown"
    [] f = "latex" -> "Latex"
    [] f = "json" -> "Json"
    [] f = "json-separated" -> "Json-separated"
    [] f = "html" -> "Html"
    [] OTHER -> f

\* a Copy button that also saves the edited text into the entries
copyToClipboardSavingText ==
  /\ shuffleOpen
  /\ mounted
  /\ copiedFormat' = formatDisplay(format)
  /\ shuffleOpen' = FALSE
  /\ entries' = [i \in 1..Len(entries) |-> [entries[i] EXCEPT !.text = editedText]]
  /\ ShowNotification
  /\ UNCHANGED <<shuffleVars, notificationMessage, boardVars>>

\* the Copy button: the modal closes and App shows the notification, whose
\* text is the copied format unless a message is set
copyToClipboard ==
  /\ shuffleOpen
  /\ mounted
  /\ copiedFormat' = formatDisplay(format)
  /\ shuffleOpen' = FALSE
  /\ ShowNotification
  /\ UNCHANGED <<shuffleVars, entries, notificationMessage, boardVars>>

\* the Dismiss button and the close icon: setShufflingText(null)
onClose ==
  /\ shuffleOpen
  /\ mounted
  /\ shuffleOpen' = FALSE
  /\ UNCHANGED <<shuffleVars, entries, copiedFormat, notifVars, boardVars>>

Settings ==
  \/ Mount
  \/ DeleteChar
  \/ \E f \in Formats : SetFormat(f)
  \/ SetPreserveMargins
  \/ \E v \in TypedSizes : handleFontSizeChange(v)
  \/ \E w \in ClientWidths : Resize(w)

Init == InitOn(Texts, {SeedEntries})
Next == Settings \/ \E c \in Chars : TypeChar(c, MaxLen)
Spec == Init /\ [][Next]_vars

InitJson == InitOn(JsonTexts, {SeedEntries})
NextJson == Settings \/ \E c \in JsonChars : TypeChar(c, MaxJsonLen)
SpecJson == InitJson /\ [][NextJson]_vars

\* The transformation on values the controls of the modal do not offer: a
\* format string outside the five of the select, and a text area exactly as
\* wide as its padding (available width zero).
UnknownFormats == {"text"}
EdgeClientWidths == {32}

InitEdge == InitOn(StringsUpTo(Chars, MaxEdgeLen), {SeedEntries})
NextEdge ==
  \/ Settings
  \/ \E c \in Chars : TypeChar(c, MaxEdgeLen)
  \/ \E f \in UnknownFormats : SetFormat(f)
  \/ \E w \in EdgeClientWidths : Resize(w)
SpecEdge == InitEdge /\ [][NextEdge]_vars

\* A session of the modal opened on an entry of the list, up to its close.
EntryLists == {SeedEntries, <<Entry(1, <<"a", NL, "a">>, 16)>>}

InitEntries ==
  /\ InitOn(StringsUpTo(Chars, MaxEntryLen), EntryLists)
  /\ \E i \in 1..Len(entries) : entries[i].text = editedText
NextEntries ==
  \/ Settings
  \/ \E c \in Chars : TypeChar(c, MaxEntryLen)
  \/ setEditedTransformed("a", MaxOutputEdits)
  \/ copyToClipboard
  \/ onClose
SpecEntries == InitEntries /\ [][NextEntries]_vars

\* reflow is the branch taken in this state
Reflowing == mounted /\ reflowApplies(preserveMargins, mounted, canvas2d)

(***************************************************************************)
(* The board of App: the entries of the displayed date and their           *)
(* drag-and-drop reordering (App.tsx 1366-1556, 1786-1977).                *)
(***************************************************************************)
\* selectedDate || today
effectiveDate == IF selectedDate = NoDate THEN Today ELSE selectedDate

\* entriesByDate[date] || []
entriesByDate(list, date) == SelectSeq(list, LAMBDA e : e.date = date)

\* entries.filter(entry => entry.date !== effectiveDate)
newEntries(list, date) == SelectSeq(list, LAMBDA e : e.date # date)

filteredEntries == entriesByDate(entries, effectiveDate)

\* Array.prototype.findIndex(entry => entry.id === id): from 0, -1 when absent
RECURSIVE findIndexFrom(_, _, _)
findIndexFrom(list, id, i) ==
  IF i > Len(list) THEN -1
  ELSE IF list[i].id = id THEN i - 1
  ELSE findIndexFrom(list, id, i + 1)

findIndex(list, id) == findIndexFrom(list, id, 1)

\* list.splice(k, 1): the list without its element of index k
RemoveAt(list, k) == SubSeq(list, 1, k) \o SubSeq(list, k + 2, Len(list))

\* list.splice(k, 0, e): an index past the end inserts at the end
InsertAt(list, k, e) ==
  LET start == IF k > Len(list) THEN Len(list) ELSE k
  IN  SubSeq(list, 1, start) \o <<e>> \o SubSeq(list, start + 1, Len(list))

\* TRUE when handleDrop returns before setEntries
handleDropReturns(list, date, draggedEntryId, targetEntryId) ==
  \/ draggedEntryId = targetEntryId
  \/ findIndex(entriesByDate(list, date), draggedEntryId) = -1
  \/ findIndex(entriesByDate(list, date), targetEntryId) = -1

\* the list handleDrop passes to setEntries
handleDrop(list, date, draggedEntryId, targetEntryId, before) ==
  IF handleDropReturns(list, date, draggedEntryId, targetEntryId) THEN list
  ELSE LET dateEntries == entriesByDate(list, date)
           draggedIndex == findIndex(dateEntries, draggedEntryId)
           targetIndex == findIndex(dateEntries, targetEntryId)
           newTargetIndex ==
             IF before
             THEN (IF targetIndex > draggedIndex THEN targetIndex - 1 ELSE targetIndex)
             ELSE (IF targetIndex < draggedIndex THEN targetIndex + 1 ELSE targetIndex)
       IN  newEntries(list, date)
             \o InsertAt(RemoveAt(dateEntries, draggedIndex), newTargetIndex,
                         dateEntries[draggedIndex + 1])

\* TRUE when handleContainerDrop returns before setEntries
handleContainerDropReturns(list, date, draggedEntryId, indicator) ==
  \/ indicator = NoIndicator
  \/ findIndex(entriesByDate(list, date), draggedEntryId) = -1

\* a container drop that inserts the dragged entry without taking it out
handleContainerDropDuplicating(list, date, draggedEntryId, indicator) ==
  IF handleContainerDropReturns(list, date, draggedEntryId, indicator) THEN list
  ELSE LET dateEntries == entriesByDate(list, date)
           draggedIndex == findIndex(dateEntries, draggedEntryId)
           newTargetIndex == IF indicator > draggedIndex THEN indicator - 1 ELSE indicator
       IN  newEntries(list, date)
             \o InsertAt(dateEntries, newTargetIndex, dateEntries[draggedIndex + 1])

\* a container drop that inserts at the indicator without allowing for the
\* removal of the dragged entry
handleContainerDropUnadjusted(list, date, draggedEntryId, indicator) ==
  IF handleContainerDropReturns(list, date, draggedEntryId, indicator) THEN list
  ELSE LET dateEntries == entriesByDate(list, date)
           draggedIndex == findIndex(dateEntries, draggedEntryId)
       IN  newEntries(list, date)
             \o InsertAt(RemoveAt(dateEntries, draggedIndex), indicator,
                         dateEntries[draggedIndex + 1])

\* the list handleContainerDrop passes to setEntries
handleContainerDrop(list, date, draggedEntryId, indicator) ==
  IF handleContainerDropReturns(list, date, draggedEntryId, indicator) THEN list
  ELSE LET dateEntries == entriesByDate(list, date)
           draggedIndex == findIndex(dateEntries, draggedEntryId)
           newTargetIndex == IF indicator > draggedIndex THEN indicator - 1 ELSE indicator
       IN  newEntries(list, date)
             \o InsertAt(RemoveAt(dateEntries, draggedIndex), newTargetIndex,
                         dateEntries[draggedIndex + 1])

\* Where the drag pointer is: outside the grid, over the grid beside the
\* cards, over the card of an index (with the side of the card's centre line
\* it is on: -1 left, 0 on it, 1 right), or released.
OverGrid == <<"grid", -1, 0>>
OverCard(c, h) == <<"card", c, h>>
Dropped == <<"dropped", -1, 0>>
Sides == {-1, 0, 1}

\* no modal covers the board
BoardFree ==
  /\ ~shuffleOpen
  /\ editingEntry = <<>>
  /\ optionsEntry = <<>>
  /\ ~calendarVisible

\* the date buttons of the sidebar: setSelectedDate(date)
setSelectedDate(date) ==
  /\ BoardFree
  /\ dataTransfer = NoId
  /\ date # selectedDate
  /\ selectedDate' = date
  /\ UNCHANGED <<shuffleVars, entries, shuffleOpen, copiedFormat, notifVars,
                 dropIndicator, dataTransfer, pointer, editVars, calendarVars>>

\* a card of the displayed date starts to be dragged
handleDragStart(entryId) ==
  /\ BoardFree
  /\ dataTransfer = NoId
  /\ findIndex(filteredEntries, entryId) # -1
  /\ dataTransfer' = entryId
  /\ UNCHANGED <<shuffleVars, entries, shuffleOpen, copiedFormat, notifVars,
                 selectedDate, dropIndicator, pointer, editVars, calendarVars>>

\* text dragged into the page from elsewhere: getData('text/plain') is the
\* id of no entry
ForeignId == 99
DragForeignText ==
  /\ BoardFree
  /\ dataTransfer = NoId
  /\ dataTransfer' = ForeignId
  /\ UNCHANGED <<shuffleVars, entries, shuffleOpen, copiedFormat, notifVars,
                 selectedDate, dropIndicator, pointer, editVars, calendarVars>>

\* handleContainerDragOver with the pointer over the card of index c, which
\* is then the card whose centre is closest; wide is innerWidth >= 768,
\* h and v the sides of the card's centre the pointer is on
handleContainerDragOver(c, h, v, wide) ==
  /\ dataTransfer # NoId
  /\ pointer # Dropped
  /\ c < Len(filteredEntries)
  /\ LET isAfter == IF wide THEN h > 0 ELSE v > 0
     IN  dropIndicator' = IF isAfter THEN c + 1 ELSE c
  /\ pointer' = OverCard(c, h)
  /\ UNCHANGED <<shuffleVars, entries, shuffleOpen, copiedFormat, notifVars,
                 selectedDate, dataTransfer, editVars, calendarVars>>

\* handleContainerDragOver with the pointer over the grid beside the cards:
\* before the first card, after the last one, or closest to any card on
\* either side, which gives indicator k
handleContainerDragOverGrid(k) ==
  /\ dataTransfer # NoId
  /\ pointer # Dropped
  /\ k <= Len(filteredEntries)
  /\ dropIndicator' = IF Len(filteredEntries) = 0 THEN dropIndicator ELSE k
  /\ pointer' = OverGrid
  /\ UNCHANGED <<shuffleVars, entries, shuffleOpen, copiedFormat, notifVars,
                 selectedDate, dataTransfer, editVars, calendarVars>>

\* onDragLeave of the grid: the pointer leaves it
onDragLeave ==
  /\ dataTransfer # NoId
  /\ pointer \notin {Outside, Dropped}
  /\ dropIndicator' = NoIndicator
  /\ pointer' = Outside
  /\ UNCHANGED <<shuffleVars, entries, shuffleOpen, copiedFormat, notifVars,
                 selectedDate, dataTransfer, editVars, calendarVars>>

\* A drop on a card: onDrop of the card runs handleDrop, the event bubbles
\* to the grid, whose onDrop runs handleContainerDrop in the same render, so
\* with the same entries and dropIndicator; the last setEntries is the one
\* that takes effect.
DropOnCard ==
  /\ dataTransfer # NoId
  /\ pointer[1] = "card"
  /\ LET targetEntryId == filteredEntries[pointer[2] + 1].id
         before == pointer[3] < 0
     IN  /\ entries' =
              IF handleContainerDropReturns(entries, effectiveDate, dataTransfer, dropIndicator)
              THEN handleDrop(entries, effectiveDate, dataTransfer, targetEntryId, before)
              ELSE handleContainerDrop(entries, effectiveDate, dataTransfer, dropIndicator)
         /\ dropIndicator' =
              IF /\ handleDropReturns(entries, effectiveDate, dataTransfer, targetEntryId)
                 /\ handleContainerDropReturns(entries, effectiveDate, dataTransfer,
                                               dropIndicator)
              THEN dropIndicator ELSE NoIndicator
  /\ pointer' = Dropped
  /\ UNCHANGED <<shuffleVars, shuffleOpen, copiedFormat, notifVars,
                 selectedDate, dataTransfer, editVars, calendarVars>>

\* A drop on the grid beside the cards: handleContainerDrop alone
DropOnGrid ==
  /\ dataTransfer # NoId
  /\ pointer = OverGrid
  /\ entries' = handleContainerDrop(entries, effectiveDate, dataTransfer, dropIndicator)
  /\ dropIndicator' =
       IF handleContainerDropReturns(entries, effectiveDate, dataTransfer, dropIndicator)
       THEN dropIndicator ELSE NoIndicator
  /\ pointer' = Dropped
  /\ UNCHANGED <<shuffleVars, shuffleOpen, copiedFormat, notifVars,
                 selectedDate, dataTransfer, editVars, calendarVars>>

\* dragend on the dragged card, after a drop or when the drag is given up
handleDragEnd ==
  /\ dataTransfer \notin {NoId, ForeignId}
  /\ dropIndicator' = NoIndicator
  /\ dataTransfer' = NoId
  /\ pointer' = Outside
  /\ UNCHANGED <<shuffleVars, entries, shuffleOpen, copiedFormat, notifVars,
                 selectedDate, editVars, calendarVars>>

\* the end of a drag that started outside the page: no card gets dragend
ForeignDragEnd ==
  /\ dataTransfer = ForeignId
  /\ pointer \in {Outside, Dropped}
  /\ dataTransfer' = NoId
  /\ pointer' = Outside
  /\ UNCHANGED <<shuffleVars, entries, shuffleOpen, copiedFormat, notifVars,
                 selectedDate, dropIndicator, editVars, calendarVars>>

\* an Entry of another date
OnDate(e, date) == [e EXCEPT !.date = date]

\* dates of the sidebar and of the calendar; the last one has no entry
Dates == {Today, "2025-01-02", "2025-01-03"}

\* the entries of a board: three of today between two of another day
BoardEntries ==
  <<Entry(1, <<"a">>, 16), OnDate(Entry(2, <<"a">>, 16), "2025-01-02"),
    Entry(3, <<"a">>, 16), OnDate(Entry(4, <<"a">>, 16), "2025-01-02"),
    Entry(5, <<"a">>, 16)>>

\* App after its first render with a list of entries: no modal is open
InitBoard(lists, clock) ==
  /\ entries \in lists
  /\ shuffleOpen = FALSE
  /\ copiedFormat = ""
  /\ editedText = <<>>
  /\ format = "markdown"
  /\ preserveMargins = TRUE
  /\ fontSize = 16
  /\ clientWidth = 56
  /\ canvas2d = TRUE
  /\ mounted = FALSE
  /\ transformed = <<>>
  /\ editedTransformed = <<>>
  /\ notificationVisible = FALSE
  /\ notificationMessage = ""
  /\ timers = 0
  /\ selectedDate = NoDate
  /\ dropIndicator = NoIndicator
  /\ dataTransfer = NoId
  /\ pointer = Outside
  /\ editingEntry = <<>>
  /\ editModal = <<>>
  /\ resizing = <<>>
  /\ optionsEntry = <<>>
  /\ now = clock
  /\ calendarVisible = FALSE
  /\ calendarDate = <<2025, 0>>

DragAndDrop ==
  \/ \E i \in 1..Len(entries) : handleDragStart(entries[i].id)
  \/ DragForeignText
  \/ \E c \in 0..(Len(filteredEntries) - 1), h \in Sides, v \in Sides, wide \in BOOLEAN :
       handleContainerDragOver(c, h, v, wide)
  \/ \E k \in 0..Len(filteredEntries) : handleContainerDragOverGrid(k)
  \/ onDragLeave
  \/ DropOnCard
  \/ DropOnGrid
  \/ handleDragEnd
  \/ ForeignDragEnd

InitDrag == InitBoard({BoardEntries}, MaxClock)
NextDrag == DragAndDrop \/ \E date \in Dates : setSelectedDate(date)
SpecDrag == InitDrag /\ [][NextDrag]_vars

(***************************************************************************)
(* The Edit and Options modals, the deletion of an entry and the           *)
(* notification timers (App.tsx 93-312, 679-695, 1558-1573, 1620-1628,     *)
(* 2086-2124).                                                             *)
(***************************************************************************)
\* the callback of a pending setTimeout runs: setNotificationVisible(false)
Timeout ==
  /\ timers > 0
  /\ timers' = timers - 1
  /\ notificationVisible' = FALSE
  /\ UNCHANGED <<shuffleVars, entries, shuffleOpen, copiedFormat, notificationMessage,
                 boardVars>>

\* useState initialisers of EditModal: entry?.title || "", entry?.text || "",
\* entry?.fontSize || 16, useResizable(entry?.width || 1125)
EditModalState(entry) ==
  [title |-> IF "title" \in DOMAIN entry THEN entry.title ELSE <<>>,
   text |-> IF "text" \in DOMAIN entry THEN entry.text ELSE <<>>,
   fontSize |-> IF "fontSize" \in DOMAIN entry /\ entry.fontSize # 0
                THEN entry.fontSize ELSE 16,
   width |-> IF "width" \in DOMAIN entry /\ entry.width # 0 THEN entry.width ELSE 1125]

\* a millisecond passes: Date.now() advances
Tick ==
  /\ now < MaxClock
  /\ now' = now + 1
  /\ UNCHANGED <<shuffleVars, entries, shuffleOpen, copiedFormat, notifVars, dragVars,
                 editingEntry, editModal, resizing, optionsEntry, calendarVars>>

\* the new-entry buttons: the entry is named by the clock, Date.now()
handleNewEntry ==
  /\ BoardFree
  /\ dataTransfer = NoId
  /\ editingEntry' = <<[id |-> now, date |-> effectiveDate, width |-> 1125, fontSize |-> 16]>>
  /\ editModal' = <<EditModalState(editingEntry'[1])>>
  /\ UNCHANGED <<shuffleVars, entries, shuffleOpen, copiedFormat, notifVars, dragVars,
                 resizing, optionsEntry, now, calendarVars>>

\* a click on the card of index i of the displayed date: setEditingEntry(entry)
handleEntryClick(i) ==
  /\ BoardFree
  /\ dataTransfer = NoId
  /\ i \in 1..Len(filteredEntries)
  /\ editingEntry' = <<filteredEntries[i]>>
  /\ editModal' = <<EditModalState(filteredEntries[i])>>
  /\ UNCHANGED <<shuffleVars, entries, shuffleOpen, copiedFormat, notifVars, dragVars,
                 resizing, optionsEntry, now, calendarVars>>

\* the Edit modal is open and no resize drag is in progress
Editing == editModal # <<>> /\ resizing = <<>>

\* onChange of the textarea of the Edit modal: a character typed at the end
EditTypeChar(c) ==
  /\ Editing
  /\ Len(editModal[1].text) < MaxEditLen
  /\ editModal' = <<[editModal[1] EXCEPT !.text = Append(@, c)]>>
  /\ UNCHANGED <<shuffleVars, entries, shuffleOpen, copiedFormat, notifVars, dragVars,
                 editingEntry, resizing, optionsEntry, now, calendarVars>>

\* onChange of the textarea of the Edit modal: the last character deleted
EditDeleteChar ==
  /\ Editing
  /\ Len(editModal[1].text) > 0
  /\ editModal' = <<[editModal[1] EXCEPT !.text = SubSeq(@, 1, Len(@) - 1)]>>
  /\ UNCHANGED <<shuffleVars, entries, shuffleOpen, copiedFormat, notifVars, dragVars,
                 editingEntry, resizing, optionsEntry, now, calendarVars>>

\* a size limit that forgets the maximum
limitFontSizeNoMaximum(newSize) ==
  IF newSize < MIN_FONT_SIZE THEN MIN_FONT_SIZE ELSE newSize

\* the size handleFontSizeChange of the Edit modal sets for a number typed
limitFontSize(newSize) ==
  IF newSize < MIN_FONT_SIZE THEN MIN_FONT_SIZE
  ELSE IF newSize > MAX_FONT_SIZE THEN MAX_FONT_SIZE ELSE newSize

\* handleFontSizeChange of the Edit modal with a number typed
EditHandleFontSizeChange(newSize) ==
  /\ Editing
  /\ editModal' = <<[editModal[1] EXCEPT !.fontSize = limitFontSize(newSize)]>>
  /\ editModal' # editModal \/ newSize < MIN_FONT_SIZE \/ newSize > MAX_FONT_SIZE
  /\ LimitNotification(newSize)
  /\ UNCHANGED <<shuffleVars, entries, shuffleOpen, copiedFormat, dragVars,
                 editingEntry, resizing, optionsEntry, now, calendarVars>>

\* the small and the large A of the Edit modal:
\* setFontSize(Math.max(MIN_FONT_SIZE, fontSize - 2)) and
\* setFontSize(Math.min(MAX_FONT_SIZE, fontSize + 2))
EditStepFontSize(step) ==
  /\ Editing
  /\ LET size == editModal[1].fontSize + step
         stepped == IF step < 0
                    THEN (IF size > MIN_FONT_SIZE THEN size ELSE MIN_FONT_SIZE)
                    ELSE (IF size < MAX_FONT_SIZE THEN size ELSE MAX_FONT_SIZE)
     IN  /\ stepped # editModal[1].fontSize
         /\ editModal' = <<[editModal[1] EXCEPT !.fontSize = stepped]>>
  /\ UNCHANGED <<shuffleVars, entries, shuffleOpen, copiedFormat, notifVars, dragVars,
                 editingEntry, resizing, optionsEntry, now, calendarVars>>

\* a resize that does not clamp the width
doResizeUnclamped(startWidth, startX, clientX) == startWidth + (clientX - startX)

\* doResize of useResizable: Math.max(300, Math.min(newWidth, 1800))
doResize(startWidth, startX, clientX) ==
  LET newWidth == startWidth + (clientX - startX)
      capped == IF newWidth < 1800 THEN newWidth ELSE 1800
  IN  IF capped > 300 THEN capped ELSE 300

\* mousedown on the resize handle of the Edit modal
startResize(clientX) ==
  /\ Editing
  /\ resizing' = <<[startX |-> clientX, startWidth |-> editModal[1].width,
                    clientX |-> clientX]>>
  /\ UNCHANGED <<shuffleVars, entries, shuffleOpen, copiedFormat, notifVars, dragVars,
                 editingEntry, editModal, optionsEntry, now, calendarVars>>

\* mousemove during a resize drag
ResizeMove(clientX) ==
  /\ resizing # <<>>
  /\ clientX # resizing[1].clientX
  /\ resizing' = <<[resizing[1] EXCEPT !.clientX = clientX]>>
  /\ editModal' = <<[editModal[1] EXCEPT
                       !.width = doResize(resizing[1].startWidth, resizing[1].startX, clientX)]>>
  /\ UNCHANGED <<shuffleVars, entries, shuffleOpen, copiedFormat, notifVars, dragVars,
                 editingEntry, optionsEntry, now, calendarVars>>

\* mouseup: the listeners of the drag are removed
stopResize ==
  /\ resizing # <<>>
  /\ resizing' = <<>>
  /\ UNCHANGED <<shuffleVars, entries, shuffleOpen, copiedFormat, notifVars, dragVars,
                 editingEntry, editModal, optionsEntry, now, calendarVars>>

\* { ...e, ...entry }
Spread(e, entry) == entry @@ e

\* entries.map((e) => (e.id === id ? { ...e, ...entry } : e))
updateEntry(list, id, entry) ==
  [i \in 1..Len(list) |-> IF list[i].id = id THEN Spread(list[i], entry) ELSE list[i]]

\* [...entries, entry]
addEntry(list, entry) == Append(list, entry)

\* entries.filter((e) => e.id !== id)
deleteEntry(list, id) == SelectSeq(list, LAMBDA e : e.id # id)

\* the entry onSave adds: date || today, width || 1125, fontSize || 16
WithDefaults(entry) ==
  [entry EXCEPT !.date = IF @ = NoDate THEN Today ELSE @,
                !.width = IF @ = 0 THEN 1125 ELSE @,
                !.fontSize = IF @ = 0 THEN 16 ELSE @]

\* an onSave that adds the entry whether or not its id is in the list
onSaveAlwaysAdding(list, entry) == addEntry(list, WithDefaults(entry))

\* onSave of the Edit modal in App
onSave(list, entry) ==
  IF entry.id # 0 /\ \E i \in 1..Len(list) : list[i].id = entry.id
  THEN updateEntry(list, entry.id, entry)
  ELSE addEntry(list, WithDefaults(entry))

\* the entry handleSave of the Edit modal passes to onSave
SavedEntry ==
  [id |-> editingEntry[1].id, title |-> editModal[1].title, text |-> editModal[1].text,
   width |-> editModal[1].width, fontSize |-> editModal[1].fontSize,
   date |-> editingEntry[1].date]

\* the check mark of the Edit modal, shown when the text is not empty
handleSave ==
  /\ Editing
  /\ Len(editModal[1].text) > 0
  /\ entries' = onSave(entries, SavedEntry)
  /\ editingEntry' = <<>>
  /\ editModal' = <<>>
  /\ UNCHANGED <<shuffleVars, shuffleOpen, copiedFormat, notifVars, dragVars,
                 resizing, optionsEntry, now, calendarVars>>

\* the close icon of the Edit modal: setEditingEntry(null)
EditClose ==
  /\ Editing
  /\ editingEntry' = <<>>
  /\ editModal' = <<>>
  /\ UNCHANGED <<shuffleVars, entries, shuffleOpen, copiedFormat, notifVars, dragVars,
                 resizing, optionsEntry, now, calendarVars>>

\* the options icon of the card of index i: setOptionsEntry(entry)
OpenOptions(i) ==
  /\ BoardFree
  /\ dataTransfer = NoId
  /\ i \in 1..Len(filteredEntries)
  /\ optionsEntry' = <<filteredEntries[i]>>
  /\ UNCHANGED <<shuffleVars, entries, shuffleOpen, copiedFormat, notifVars, dragVars,
                 editingEntry, editModal, resizing, now, calendarVars>>

\* descriptions typed in the Options modal
Descriptions == {<<"d">>}

\* Save of the Options modal with the description typed and no tag:
\* updateEntry(optionsEntry.id, { ...entry, description, tags })
OptionsSave(description) ==
  /\ optionsEntry # <<>>
  /\ entries' = updateEntry(entries, optionsEntry[1].id,
                            Spread(optionsEntry[1],
                                   [description |-> description, tags |-> <<>>]))
  /\ optionsEntry' = <<>>
  /\ UNCHANGED <<shuffleVars, shuffleOpen, copiedFormat, notifVars, dragVars,
                 editingEntry, editModal, resizing, now, calendarVars>>

\* Cancel and the close icon of the Options modal
OptionsClose ==
  /\ optionsEntry # <<>>
  /\ optionsEntry' = <<>>
  /\ UNCHANGED <<shuffleVars, entries, shuffleOpen, copiedFormat, notifVars, dragVars,
                 editingEntry, editModal, resizing, now, calendarVars>>

\* the trash icon of the card of index i, with the answer to window.confirm
handleDeleteEntry(i, confirmed) ==
  /\ BoardFree
  /\ dataTransfer = NoId
  /\ i \in 1..Len(filteredEntries)
  /\ confirmed
  /\ entries' = deleteEntry(entries, filteredEntries[i].id)
  /\ notificationMessage' = "Entry deleted successfully"
  /\ ShowNotification
  /\ UNCHANGED <<shuffleVars, shuffleOpen, copiedFormat, boardVars>>

\* the shuffle icon of the card of index i: setShufflingText(entry.text), and
\* the first render of the Shuffle modal
OpenShuffle(i) ==
  /\ BoardFree
  /\ dataTransfer = NoId
  /\ i \in 1..Len(filteredEntries)
  /\ Len(filteredEntries[i].text) > 0
  /\ shuffleOpen' = TRUE
  /\ editedText' = filteredEntries[i].text
  /\ format' = "markdown"
  /\ preserveMargins' = TRUE
  /\ fontSize' = MatchingFontSize(entries, editedText')
  /\ clientWidth' = 56
  /\ canvas2d' = TRUE
  /\ mounted' = FALSE
  /\ transformed' = getTransformedText(editedText', format', preserveMargins', fontSize',
                                       FALSE, canvas2d', clientWidth')
  /\ editedTransformed' = <<>>
  /\ UNCHANGED <<entries, copiedFormat, notifVars, boardVars>>

\* the small and the large A of the Shuffle modal
StepFontSize(step) ==
  /\ shuffleOpen
  /\ mounted
  /\ LET size == fontSize + step
     IN  fontSize' = IF step < 0
                     THEN (IF size > MIN_FONT_SIZE THEN size ELSE MIN_FONT_SIZE)
                     ELSE (IF size < MAX_FONT_SIZE THEN size ELSE MAX_FONT_SIZE)
  /\ fontSize' # fontSize
  /\ transformed' = Recomputed(editedText, format, preserveMargins, fontSize', clientWidth)
  /\ editedTransformed' = transformed'
  /\ UNCHANGED <<editedText, format, preserveMargins, clientWidth, canvas2d, mounted,
                 appVars>>

\* The list of entries under new entries, edits, options, deletions and drops.
ListEntries == <<Entry(1, <<"a">>, 16), Entry(2, <<"a">>, 16)>>
InitList == InitBoard({ListEntries}, 2)
NextList ==
  \/ Tick
  \/ handleNewEntry
  \/ \E i \in 1..Len(entries) : handleEntryClick(i)
  \/ EditTypeChar("a")
  \/ EditDeleteChar
  \/ handleSave
  \/ EditClose
  \/ \E i \in 1..Len(entries) : OpenOptions(i)
  \/ \E d \in Descriptions : OptionsSave(d)
  \/ OptionsClose
  \/ \E i \in 1..Len(entries) : handleDeleteEntry(i, TRUE)
  \/ Timeout
  \/ DragAndDrop
SpecList == InitList /\ [][NextList]_vars

\* a list of one entry
OneEntry == <<Entry(1, <<"a">>, 16)>>
\* The font size controls of the two modals, from an empty list to which one
\* new entry can be added.
\* numbers typed into a font size field: below, within and above the limits
FontSizesTyped == {4, 20, 40}
\* the steps of the small and the large A
FontSteps == {-2, 2}

InitFont == InitBoard({<<>>}, MaxClock - 1)
NextFont ==
  \/ handleNewEntry
  \/ \E i \in 1..Len(entries) : handleEntryClick(i)
  \/ EditTypeChar("a")
  \/ \E v \in FontSizesTyped : EditHandleFontSizeChange(v)
  \/ \E step \in FontSteps : EditStepFontSize(step)
  \/ handleSave
  \/ EditClose
  \/ \E i \in 1..Len(entries) : OpenShuffle(i)
  \/ Mount
  \/ \E v \in FontSizesTyped : handleFontSizeChange(v)
  \/ \E step \in FontSteps : StepFontSize(step)
  \/ onClose
  \/ Timeout
SpecFont == InitFont /\ [][NextFont]_vars

\* The resize handle of the Edit modal; clientX of the mouse events
PointerXs == {0, 1000, 2000}

InitResize == InitBoard({OneEntry}, MaxClock - 1)
NextResize ==
  \/ handleNewEntry
  \/ \E i \in 1..Len(entries) : handleEntryClick(i)
  \/ EditTypeChar("a")
  \/ \E x \in PointerXs : startResize(x)
  \/ \E x \in PointerXs : ResizeMove(x)
  \/ stopResize
  \/ handleSave
  \/ EditClose
SpecResize == InitResize /\ [][NextResize]_vars

\* The three triggers of the notification and its timers.
InitNotify == InitBoard({ListEntries}, MaxClock)
NextNotify ==
  \/ \E i \in 1..Len(entries), confirmed \in BOOLEAN : handleDeleteEntry(i, confirmed)
  \/ \E i \in 1..Len(entries) : handleEntryClick(i)
  \/ \E v \in FontSizesTyped : EditHandleFontSizeChange(v)
  \/ EditClose
  \/ \E i \in 1..Len(entries) : OpenShuffle(i)
  \/ Mount
  \/ \E v \in FontSizesTyped : handleFontSizeChange(v)
  \/ copyToClipboard
  \/ onClose
  \/ Timeout
SpecNotify == InitNotify /\ [][NextNotify]_vars

(***************************************************************************)
(* The calendar (App.tsx 795-850, 1077, 1304-1305, 1767, 2126-2139).       *)
(* currentDate is kept as <<year, month>>, the month counted from 0.       *)
(***************************************************************************)
IsLeapYear(year) == (year % 4 = 0 /\ year % 100 # 0) \/ year % 400 = 0

\* new Date(year, month + 1, 0).getDate()
getDaysInMonth(year, month) ==
  IF month = 1 THEN (IF IsLeapYear(year) THEN 29 ELSE 28)
  ELSE IF month \in {3, 5, 8, 10} THEN 30 ELSE 31

\* the days from 1 January 2000 to the first day of a year
RECURSIVE DaysToYear(_)
DaysToYear(year) ==
  IF year = 2000 THEN 0
  ELSE DaysToYear(year - 1) + (IF IsLeapYear(year - 1) THEN 366 ELSE 365)

\* the days from the first day of a year to the first day of a month of it
RECURSIVE DaysToMonth(_, _)
DaysToMonth(year, month) ==
  IF month = 0 THEN 0 ELSE DaysToMonth(year, month - 1) + getDaysInMonth(year, month - 1)

\* new Date(year, month, 1).getDay(): Sunday is 0; 1 January 2000 was a Saturday
firstDayOf(year, month) == (6 + DaysToYear(year) + DaysToMonth(year, month)) % 7

\* The two loops of generateMonthGrid from row i and column j on; a cell is
\* the number of its day, or 0 for null.
RECURSIVE FillGrid(_, _, _, _, _, _, _, _)
FillGrid(firstDay, days, weeks, i, j, day, week, grid) ==
  IF i = weeks THEN grid
  ELSE IF j = 7 THEN FillGrid(firstDay, days, weeks, i + 1, 0, day, <<>>, Append(grid, week))
  ELSE IF (i = 0 /\ j < firstDay) \/ day > days
       THEN FillGrid(firstDay, days, weeks, i, j + 1, day, Append(week, 0), grid)
       ELSE FillGrid(firstDay, days, weeks, i, j + 1, day + 1, Append(week, day), grid)

\* a grid of five weeks
generateMonthGridFiveWeeks(firstDay, days) == FillGrid(firstDay, days, 5, 0, 0, 1, <<>>, <<>>)

\* generateMonthGrid for a month of the given first weekday and length
generateMonthGrid(firstDay, days) == FillGrid(firstDay, days, 6, 0, 0, 1, <<>>, <<>>)

\* const monthGrid = generateMonthGrid(currentDate)
monthGrid ==
  generateMonthGrid(firstDayOf(calendarDate[1], calendarDate[2]),
                    getDaysInMonth(calendarDate[1], calendarDate[2]))

\* the calendar button: setCalendarVisible(true)
OpenCalendar ==
  /\ BoardFree
  /\ dataTransfer = NoId
  /\ calendarVisible' = TRUE
  /\ UNCHANGED <<shuffleVars, entries, shuffleOpen, copiedFormat, notifVars, dragVars,
                 editVars, calendarDate>>

\* new Date(year, month, 1) for a month below 0 or above 11
NormalizedDate(year, month) ==
  IF month < 0 THEN <<year - 1, month + 12>>
  ELSE IF month > 11 THEN <<year + 1, month - 12>> ELSE <<year, month>>

\* prevMonth, nextMonth, prevYear and nextYear: the date moves by months
MoveCalendar(years, months) ==
  /\ calendarVisible
  /\ calendarDate' = NormalizedDate(calendarDate[1] + years, calendarDate[2] + months)
  /\ calendarDate'[1] \in MinYear..MaxYear
  /\ UNCHANGED <<shuffleVars, entries, shuffleOpen, copiedFormat, notifVars, dragVars,
                 editVars, calendarVisible>>

prevMonth == MoveCalendar(0, -1)
nextMonth == MoveCalendar(0, 1)
prevYear == MoveCalendar(-1, 0)
nextYear == MoveCalendar(1, 0)

\* a month of the year view: setCurrentDate(new Date(year, idx, 1))
SelectMonth(idx) ==
  /\ calendarVisible
  /\ idx # calendarDate[2]
  /\ calendarDate' = <<calendarDate[1], idx>>
  /\ UNCHANGED <<shuffleVars, entries, shuffleOpen, copiedFormat, notifVars, dragVars,
                 editVars, calendarVisible>>

\* handleClose of the calendar
CloseCalendar ==
  /\ calendarVisible
  /\ calendarVisible' = FALSE
  /\ UNCHANGED <<shuffleVars, entries, shuffleOpen, copiedFormat, notifVars, dragVars,
                 editVars, calendarDate>>

InitCalendar == InitBoard({ListEntries}, MaxClock)
NextCalendar ==
  \/ OpenCalendar
  \/ prevMonth
  \/ nextMonth
  \/ prevYear
  \/ nextYear
  \/ \E idx \in 0..11 : SelectMonth(idx)
  \/ CloseCalendar
SpecCalendar == InitCalendar /\ [][NextCalendar]_vars

(***************************************************************************)
(* Properties.                                                             *)
(***************************************************************************)
\* the states whose output is the normalized text itself: markdown with the
\* Preserve margins option off
NormalizedOutput == mounted /\ ~preserveMargins /\ format = "markdown"

\* C1: normalization is the first step of every transformation: on the plain
\* and on the reflow path the output for the text equals the output for the
\* normalized text.
C1_NormalizedFirst ==
  transformed = getTransformedText(Normalize(editedText), format, preserveMargins, fontSize,
                                   mounted, canvas2d, clientWidth)

\* run-length encoding: the maximal runs of equal characters, in order
RECURSIVE RunLengths(_)
RunLengths(s) ==
  IF Len(s) = 0 THEN <<>>
  ELSE LET rest == RunLengths(Tail(s))
       IN  IF Len(rest) > 0 /\ rest[1][1] = s[1]
           THEN <<<<s[1], rest[1][2] + 1>>>> \o Tail(rest)
           ELSE <<<<s[1], 1>>>> \o rest

HasTripleBreak(s) == \E i \in 1..(Len(s) - 2) : s[i] = NL /\ s[i + 1] = NL /\ s[i + 2] = NL

\* C2: the normalized text has the runs of the text, in order, with every run
\* of three or more line breaks cut to two and every other run unchanged, and
\* so holds no three consecutive line breaks.
C2_NormalizeCollapsesRuns ==
  NormalizedOutput =>
    LET before == RunLengths(editedText)
        after == RunLengths(transformed)
    IN  /\ Len(after) = Len(before)
        /\ \A i \in 1..Len(before) :
             /\ after[i][1] = before[i][1]
             /\ after[i][2] = IF before[i][1] = NL /\ before[i][2] >= 3 THEN 2
                              ELSE before[i][2]
        /\ ~HasTripleBreak(transformed)

\* a run of four line breaks between two runs of text has been normalized
C2_Witness ==
  /\ NormalizedOutput
  /\ editedText = <<"a", NL, NL, NL, NL>>
  /\ transformed = <<"a", NL, NL>>

\* C3: the normalizer is idempotent: normalizing the normalized text again
\* returns it unchanged.
C3_NormalizeIdempotent ==
  NormalizedOutput => transformText(transformed, "markdown", TRUE) = transformed

\* a text the normalizer changed has been normalized
C3_Witness ==
  /\ NormalizedOutput
  /\ HasTripleBreak(editedText)
  /\ transformed # editedText

\* the words of a string: its non-empty space-delimited tokens, in order
RECURSIVE NonEmpty(_)
NonEmpty(tokens) ==
  IF Len(tokens) = 0 THEN <<>>
  ELSE (IF Len(tokens[1]) > 0 THEN <<tokens[1]>> ELSE <<>>) \o NonEmpty(Tail(tokens))

WordsOf(s) == NonEmpty(Split(s, SP))

\* the words of a sequence of lines, line after line
RECURSIVE WordsOfLines(_)
WordsOfLines(lines) ==
  IF Len(lines) = 0 THEN <<>> ELSE WordsOf(lines[1]) \o WordsOfLines(Tail(lines))

IsBlank(line) == \A i \in 1..Len(line) : IsWhitespace(line[i])

\* the paragraphs getTransformedText reflows: the non-blank lines of the text
ReflowedParagraphs ==
  LET lines == Split(editedText, NL)
  IN  {lines[i] : i \in {j \in 1..Len(lines) : ~IsBlank(lines[j])}}

Avail == availableWidth(clientWidth)

EmittedLines(paragraph) == paragraphLines(paragraph, Avail, fontSize)

EveryWordFits(paragraph) ==
  \A i \in 1..Len(WordsOf(paragraph)) : getTextWidth(WordsOf(paragraph)[i], fontSize) <= Avail

\* C4: reflow never splits, drops, adds or alters a word: when every word of
\* a paragraph fits the available width, the words of its emitted lines, in
\* order, are the words of the paragraph; the words of the whole reflowed
\* text are then the words of the whole text.
C4_ReflowKeepsWords ==
  Reflowing =>
    /\ \A p \in ReflowedParagraphs :
         EveryWordFits(p) => WordsOfLines(EmittedLines(p)) = WordsOf(p)
    /\ (format = "markdown" /\ \A p \in ReflowedParagraphs : EveryWordFits(p)) =>
         WordsOfLines(Split(transformed, NL)) = WordsOfLines(Split(editedText, NL))

\* a paragraph of several words, all fitting, has been wrapped into two lines
C4_Witness ==
  /\ Reflowing
  /\ format = "markdown"
  /\ \E p \in ReflowedParagraphs :
       /\ EveryWordFits(p)
       /\ Len(WordsOf(p)) >= 2
       /\ Len(EmittedLines(p)) >= 2
  /\ Len(Split(transformed, NL)) >= 2

HasSpace(line) == \E i \in 1..Len(line) : line[i] = SP

\* C5: reflow respects the width: an emitted line is no wider than the
\* available width unless it is a single word that is itself too wide; no
\* line of two or more words exceeds the available width.
C5_ReflowRespectsWidth ==
  Reflowing =>
    \A p \in ReflowedParagraphs :
      \A i \in 1..Len(EmittedLines(p)) :
        LET line == EmittedLines(p)[i]
        IN  \/ getTextWidth(line, fontSize) <= Avail
            \/ ~HasSpace(line) /\ getTextWidth(line, fontSize) > Avail

\* a paragraph was wrapped after a line of two words that fills the width
C5_Witness ==
  /\ Reflowing
  /\ \E p \in ReflowedParagraphs :
       /\ Len(EmittedLines(p)) >= 2
       /\ HasSpace(EmittedLines(p)[1])
       /\ getTextWidth(EmittedLines(p)[1], fontSize) <= Avail
       /\ getTextWidth(EmittedLines(p)[1] \o <<SP>> \o EmittedLines(p)[2], fontSize) > Avail

\* the paragraphs of a sequence of lines: the maximal runs of non-blank
\* lines, each as the sequence of its words
RECURSIVE ParagraphsFrom(_, _, _, _)
ParagraphsFrom(lines, i, cur, open) ==
  IF i > Len(lines) THEN (IF open THEN <<cur>> ELSE <<>>)
  ELSE IF IsBlank(lines[i])
       THEN (IF open THEN <<cur>> ELSE <<>>) \o ParagraphsFrom(lines, i + 1, <<>>, FALSE)
       ELSE ParagraphsFrom(lines, i + 1, cur \o WordsOf(lines[i]), TRUE)

ParagraphsOf(lines) == ParagraphsFrom(lines, 1, <<>>, FALSE)

BlankLines(lines) == Cardinality({i \in 1..Len(lines) : IsBlank(lines[i])})

\* consecutive paragraphs are one blank line apart
SingleBlankBetween(lines) ==
  \A i, j \in 1..Len(lines) :
    ( /\ i + 1 < j
      /\ ~IsBlank(lines[i])
      /\ ~IsBlank(lines[j])
      /\ \A k \in (i + 1)..(j - 1) : IsBlank(lines[k]) ) => j = i + 2

Reflowed == reflowResult(editedText, format, Avail, fontSize)

\* C6: reflow preserves the paragraph structure: the reflowed text has the
\* paragraphs of the text, in order, one empty line for each blank line of
\* the text, and exactly one blank line between consecutive paragraphs.
C6_ReflowKeepsParagraphs ==
  Reflowing =>
    /\ ParagraphsOf(Split(Reflowed, NL)) = ParagraphsOf(Split(editedText, NL))
    /\ BlankLines(Split(Reflowed, NL)) = BlankLines(Split(editedText, NL))
    /\ SingleBlankBetween(Split(Reflowed, NL))

\* the states whose output is transformText(editedText, "markdown", false)
HardBreakOutput == format = "markdown" /\ preserveMargins /\ ~(mounted /\ canvas2d)

EndsWithExactlyTwoSpaces(line) ==
  /\ Len(line) >= 2
  /\ line[Len(line)] = SP
  /\ line[Len(line) - 1] = SP
  /\ Len(line) >= 3 => line[Len(line) - 2] # SP

\* C7 as stated: with preserveMargins false every non-empty line of the
\* markdown output ends with exactly two spaces and every empty line is
\* unchanged.
C7_NonEmptyLinesEndWithTwoSpaces ==
  HardBreakOutput =>
    LET inLines == Split(Normalize(editedText), NL)
        outLines == Split(transformed, NL)
    IN  /\ Len(outLines) = Len(inLines)
        /\ \A i \in 1..Len(outLines) :
             IF Len(inLines[i]) = 0 THEN outLines[i] = <<>>
             ELSE EndsWithExactlyTwoSpaces(outLines[i])

\* out is the normalized text with two spaces appended to every line that
\* holds a character other than whitespace, and every other line unchanged
HardBroken(out, text) ==
  LET inLines == Split(Normalize(text), NL)
      outLines == Split(out, NL)
  IN  /\ Len(outLines) = Len(inLines)
      /\ \A i \in 1..Len(outLines) :
           IF \E k \in 1..Len(inLines[i]) : ~IsWhitespace(inLines[i][k])
           THEN /\ Len(outLines[i]) = Len(inLines[i]) + 2
                /\ SubSeq(outLines[i], 1, Len(inLines[i])) = inLines[i]
                /\ outLines[i][Len(outLines[i])] = SP
                /\ outLines[i][Len(outLines[i]) - 1] = SP
           ELSE outLines[i] = inLines[i]

\* C7 amended: with preserveMargins false every line of the normalized text
\* that holds a non-whitespace character is emitted with exactly two spaces
\* appended, and every empty or whitespace-only line is emitted unchanged.
C7_ContentLinesGetTwoSpaces == HardBreakOutput => HardBroken(transformed, editedText)

\* a text with a content line that ends in a space and a whitespace-only line
C7_Witness ==
  /\ HardBreakOutput
  /\ editedText = <<"a", SP, NL, SP>>
  /\ transformed = <<"a", SP, SP, SP, NL, SP>>

\* C8: in the Shuffle modal with Preserve margins off and format markdown the
\* normalized text is emitted without reflow and with two spaces appended to
\* every non-blank line.
C8_MarginsOffMarkdownHardBreaks == NormalizedOutput => HardBroken(transformed, editedText)

\* the text the format is applied to: reflowed on the reflow path, else normalized
SerializedText == IF Reflowing THEN Reflowed ELSE Normalize(editedText)

\* C9: the json output parses as a JSON object whose only member is content,
\* equal to the normalized or reflowed text, character for character.
C9_JsonRoundTrip ==
  format = "json" =>
    LET parsed == JSONParse(transformed)
    IN  /\ parsed.ok
        /\ parsed.val = <<<<ContentKey, SerializedText>>>>

\* a reflowed text with a quote, a backslash and a line break was serialized
C9_Witness ==
  /\ format = "json"
  /\ Reflowing
  /\ editedText = <<QUOTE, BSLASH, NL>>
  /\ JSONParse(transformed).ok

LineKey(i) ==
  <<"l", "i", "n", "e", SP>>
    \o (IF i < 10 THEN <<Digit(i)>> ELSE <<Digit(i \div 10), Digit(i % 10)>>)

\* C10: without reflow the json-separated output is an object whose keys are
\* "line 1" .. "line n" in that order, n the number of newline-delimited
\* segments of the normalized text, and whose i-th value is the i-th segment.
C10_JsonSeparatedKeys ==
  (format = "json-separated" /\ ~Reflowing) =>
    LET parsed == JSONParse(transformed)
        segments == Split(Normalize(editedText), NL)
    IN  /\ parsed.ok
        /\ Len(parsed.val) = Len(segments)
        /\ \A i \in 1..Len(segments) : parsed.val[i] = <<LineKey(i), segments[i]>>

\* a text with equal segments and an empty segment was serialized without reflow
C10_Witness ==
  /\ format = "json-separated"
  /\ ~Reflowing
  /\ editedText = <<"a", NL, NL, "a", NL>>
  /\ Len(JSONParse(transformed).val) = 4

NonEmptyLines(lines) == Cardinality({i \in 1..Len(lines) : Len(lines[i]) > 0})

IsPretty(s) == Len(s) >= 2 /\ s[1] = "{" /\ s[2] = NL

IsSingleLine(s) == \A i \in 1..Len(s) : s[i] # NL

OutputAs(fmt) ==
  getTransformedText(editedText, fmt, preserveMargins, fontSize, mounted, canvas2d, clientWidth)

\* C12: for one request the json output is pretty-printed with a 2-space
\* indent exactly when the json-separated output is, and on a single line
\* exactly when the json-separated output is.
C12_SameIndentRule ==
  format = "json" =>
    /\ transformed = OutputAs("json")
    /\ IsPretty(transformed) <=> IsPretty(OutputAs("json-separated"))
    /\ IsSingleLine(transformed) <=> IsSingleLine(OutputAs("json-separated"))

BreakTag == <<"<", "b", "r", ">">>

LineBreaks(s) == Cardinality({i \in 1..Len(s) : s[i] = NL})

BreakTags(s) ==
  Cardinality({i \in 1..(Len(s) - 3) : SubSeq(s, i, i + 3) = BreakTag})

\* C13: the html output is the serialized text with every line break
\* replaced by <br>, inside one <div>..</div>: it holds no line break and one
\* <br> for each line break of the normalized or reflowed text.
C13_HtmlBreaks ==
  format = "html" =>
    /\ transformed = <<"<", "d", "i", "v", ">">>
                       \o Join(Split(SerializedText, NL), BreakTag)
                       \o <<"<", "/", "d", "i", "v", ">">>
    /\ IsSingleLine(transformed)
    /\ BreakTags(transformed) = LineBreaks(SerializedText)

\* "a\na" was serialized to <div>a<br>a</div>
C13_Witness ==
  /\ format = "html"
  /\ editedText = <<"a", NL, "a">>
  /\ transformed = <<"<", "d", "i", "v", ">", "a", "<", "b", "r", ">", "a",
                     "<", "/", "d", "i", "v", ">">>

\* C14: the latex output is \begin{document}, a line break, the normalized
\* or reflowed text unchanged, a line break, \end{document}.
C14_LatexWrap ==
  format = "latex" =>
    transformed =
      <<BSLASH, "b", "e", "g", "i", "n", "{", "d", "o", "c", "u", "m", "e", "n", "t", "}", NL>>
        \o SerializedText
        \o <<NL, BSLASH, "e", "n", "d", "{", "d", "o", "c", "u", "m", "e", "n", "t", "}">>

\* a text of two paragraphs was wrapped verbatim
C14_Witness ==
  /\ format = "latex"
  /\ ~Reflowing
  /\ editedText = <<"a", SP, "a", NL, NL>>
  /\ SubSeq(transformed, 18, 22) = editedText
  /\ Len(transformed) = 17 + 5 + 15

\* C15 as stated: for a format outside the five the output is the normalized
\* text, on the plain and on the reflow path.
C15_UnknownFormatNormalized ==
  format \notin Formats => transformed = Normalize(editedText)

\* C15 amended: for a format outside the five the output is the text the
\* format would have been applied to, unchanged: the normalized text on the
\* plain path and the reflowed text on the reflow path.
C15_UnknownFormatPassthrough ==
  format \notin Formats => transformed = SerializedText

\* an unknown format was applied on the reflow path to a text the reflow changes
C15_Witness ==
  /\ format \in UnknownFormats
  /\ Reflowing
  /\ Len(WordsOf(editedText)) >= 1
  /\ transformed # Normalize(editedText)

\* the measuring surface is missing while Preserve margins is on
Unavailable == preserveMargins /\ ~(mounted /\ canvas2d)

\* out is text in the format fmt, with no line break added to text
CarriesText(out, fmt, text) ==
  CASE fmt = "markdown" -> out = text \/ HardBroken(out, text)
    [] fmt = "latex" ->
         /\ Len(out) = Len(text) + 32
         /\ SubSeq(out, 18, 17 + Len(text)) = text
    [] fmt = "json" ->
         JSONParse(out).ok /\ JSONParse(out).val = <<<<ContentKey, text>>>>
    [] fmt = "json-separated" ->
         /\ JSONParse(out).ok
         /\ Join([i \in 1..Len(JSONParse(out).val) |-> JSONParse(out).val[i][2]], <<NL>>) = text
    [] fmt = "html" ->
         out = <<"<", "d", "i", "v", ">">> \o Join(Split(text, NL), BreakTag)
                 \o <<"<", "/", "d", "i", "v", ">">>
    [] OTHER -> out = text

\* C16: with Preserve margins on and no textarea reference or no canvas
\* context, the output is the normalized text in the requested format, with
\* no reflow line break.
C16_UnavailableFallsBack ==
  Unavailable => CarriesText(transformed, format, Normalize(editedText))

\* the canvas context is missing for a text the reflow would have wrapped
C16_Witness ==
  /\ Unavailable
  /\ mounted
  /\ format = "latex"
  /\ editedText = <<"a", "a", SP, "a">>
  /\ serializeReflowed(Reflowed, format) # transformed

\* widths of the text area that leave a positive available width
PositiveWidths == 33..56

\* C17: with an available width of zero or less the output is the output for
\* some positive available width, or the output without reflow.
C17_OutOfRangeWidth ==
  (Reflowing /\ Avail <= 0) =>
    \/ \E w \in PositiveWidths :
         transformed = getTransformedText(editedText, format, preserveMargins, fontSize,
                                          mounted, canvas2d, w)
    \/ transformed = transformText(editedText, format, FALSE)
    \/ transformed = transformText(editedText, format, TRUE)

\* a text of two words was reflowed at an available width of zero
C17_Witness ==
  /\ Reflowing
  /\ clientWidth = 32
  /\ Avail = 0
  /\ format = "latex"
  /\ Len(WordsOf(editedText)) >= 2

\* C19: no operation of the Shuffle modal changes the entries list or a
\* field of an entry.
C19_EntriesUnchanged == [][entries' = entries]_vars

\* the modal was closed by Copy after both texts were edited
C19_Witness ==
  /\ ~shuffleOpen
  /\ copiedFormat = "Json"
  /\ \A i \in 1..Len(entries) : entries[i].text # editedText
  /\ editedTransformed # transformed

\* C20: transformText(t, "markdown", true) is exactly the normalized text:
\* its lines are the lines of the normalized text, character for character.
C20_MarkdownPreservedIsNormalized ==
  NormalizedOutput =>
    /\ transformed = Normalize(editedText)
    /\ Split(transformed, NL) = Split(Normalize(editedText), NL)

\* a text with a content line and a whitespace-only line came out unchanged
C20_Witness ==
  /\ NormalizedOutput
  /\ editedText = <<"a", NL, SP>>
  /\ transformed = editedText

\* the first space-delimited token of a line
FirstWord(line) == Split(line, SP)[1]

\* C21: reflow is greedy: for every two consecutive emitted lines of a
\* paragraph, the earlier line extended by a space and the first word of the
\* later line measures strictly more than the available width, so no line
\* break is emitted that was not forced.
C21_ReflowGreedy ==
  Reflowing =>
    \A p \in ReflowedParagraphs :
      \A i \in 1..(Len(EmittedLines(p)) - 1) :
        getTextWidth(EmittedLines(p)[i] \o <<SP>> \o FirstWord(EmittedLines(p)[i + 1]),
                     fontSize) > Avail

\* a line that fills the available width exactly was kept whole and the next
\* word started a new line
C21_Witness ==
  /\ Reflowing
  /\ Avail > 0
  /\ \E p \in ReflowedParagraphs :
       /\ Len(EmittedLines(p)) = 2
       /\ getTextWidth(EmittedLines(p)[1], fontSize) = Avail
       /\ getTextWidth(EmittedLines(p)[2], fontSize) < Avail

\* the lines, each but the last followed by the marker
RECURSIVE LinesWithMarker(_, _)
LinesWithMarker(lines, marker) ==
  IF Len(lines) = 0 THEN <<>>
  ELSE IF Len(lines) = 1 THEN lines[1]
  ELSE lines[1] \o marker \o LinesWithMarker(Tail(lines), marker)

\* the text whose paragraphs are the lines of the text, blank ones empty, the
\* emitted lines of every other one each followed by the marker but the last
ExpectedReflow(marker) ==
  LET paragraphs == Split(editedText, NL)
  IN  Join([i \in 1..Len(paragraphs) |->
              IF IsBlank(paragraphs[i]) THEN <<>>
              ELSE LinesWithMarker(EmittedLines(paragraphs[i]), marker)],
           <<NL, NL>>)

\* C22: in reflow, for format markdown every emitted line followed by another
\* line of its paragraph ends with two spaces before its line break and the
\* last line of a paragraph carries no added spaces; for every other format
\* the lines of a paragraph are joined by a plain line break.
C22_FormatAwareJoins ==
  Reflowing =>
    /\ format = "markdown" => transformed = ExpectedReflow(<<SP, SP, NL>>)
    /\ format = "latex" =>
         transformed = BeginDocument \o <<NL>> \o ExpectedReflow(<<NL>>) \o <<NL>> \o EndDocument
    /\ format # "markdown" => Reflowed = ExpectedReflow(<<NL>>)

\* a markdown paragraph was wrapped into two lines
C22_Witness ==
  /\ Reflowing
  /\ format = "markdown"
  /\ editedText = <<"a", "a", "a", SP, "a">>
  /\ transformed = <<"a", "a", "a", SP, SP, NL, "a">>

\* the number of times an entry occurs in a list
Occurrences(list, e) == Cardinality({i \in 1..Len(list) : list[i] = e})

\* the two lists hold the same entries, each as many times
SameEntries(a, b) ==
  /\ Len(a) = Len(b)
  /\ \A i \in 1..Len(a) : Occurrences(a, a[i]) = Occurrences(b, a[i])

\* the ids of a list of entries, in order
Ids(list) == [i \in 1..Len(list) |-> list[i].id]

\* C23: drag-and-drop only permutes the entries: every step of a drag leaves
\* the list with the same entries, none lost, duplicated or altered, and
\* the entries of the other dates in their relative order.
C23_DropsPermute ==
  [][ /\ SameEntries(entries, entries')
      /\ newEntries(entries', effectiveDate) = newEntries(entries, effectiveDate) ]_vars

\* drops have moved the entries of today behind the others and reordered them
C23_Witness ==
  /\ dataTransfer = NoId
  /\ Ids(entries) = <<2, 4, 5, 3, 1>>

\* C24: when an entry is dropped on another entry of the displayed date, the
\* dragged entry ends immediately before the target if the drop was in the
\* target's left half and immediately after it if in the right half, the
\* other entries of the date keep their order, and an entry dropped on
\* itself leaves the order unchanged.
C24_DropPlacement ==
  [][ DropOnCard /\ findIndex(filteredEntries, dataTransfer) # -1 =>
        LET order == filteredEntries
            after == entriesByDate(entries', effectiveDate)
            targetEntryId == order[pointer[2] + 1].id
        IN  IF dataTransfer = targetEntryId THEN after = order
            ELSE /\ RemoveAt(after, findIndex(after, dataTransfer))
                      = RemoveAt(order, findIndex(order, dataTransfer))
                 /\ pointer[3] < 0 =>
                      findIndex(after, dataTransfer) + 1 = findIndex(after, targetEntryId)
                 /\ pointer[3] > 0 =>
                      findIndex(after, dataTransfer) = findIndex(after, targetEntryId) + 1 ]_vars

\* C25: a drop handled by handleContainerDrop with indicator k and the dragged
\* entry at index d of the displayed date puts the dragged entry immediately
\* before the entry that was at index k, or last when k is the count; the
\* other entries keep their order; k = d and k = d + 1 leave the order
\* unchanged; a null indicator or an unknown dragged id leaves the list
\* unchanged.
C25_ContainerDropPlacement ==
  [][ DropOnGrid \/ DropOnCard =>
        LET order == filteredEntries
            after == entriesByDate(entries', effectiveDate)
            k == dropIndicator
            d == findIndex(order, dataTransfer)
        IN  IF k = NoIndicator \/ d = -1
            THEN DropOnGrid => entries' = entries
            ELSE /\ RemoveAt(after, findIndex(after, dataTransfer)) = RemoveAt(order, d)
                 /\ IF k = d \/ k = d + 1 THEN after = order
                    ELSE IF k = Len(order) THEN after[Len(after)].id = dataTransfer
                    ELSE after[findIndex(after, dataTransfer) + 2] = order[k + 1] ]_vars

\* the first entry of today was dropped with the indicator after the last one
C25_Witness ==
  /\ pointer = Dropped
  /\ dataTransfer = 1
  /\ Ids(filteredEntries) = <<3, 5, 1>>

IdsDistinct ==
  \A i, j \in 1..Len(entries) : i # j => entries[i].id # entries[j].id

\* C26: entry ids stay pairwise distinct under new entries, edit saves,
\* options saves, deletions and drops: a save whose id is in the list updates
\* that entry in place and leaves the ids of the list unchanged, and a save
\* with an id not in the list appends exactly one entry.
C26_IdsDistinct ==
  /\ []IdsDistinct
  /\ [][ handleSave =>
           IF \E i \in 1..Len(entries) : entries[i].id = editingEntry[1].id
           THEN Ids(entries') = Ids(entries)
           ELSE Ids(entries') = Append(Ids(entries), editingEntry[1].id) ]_vars

\* a new entry was appended after the first entry was given a description
\* and edited in place
C26_Witness ==
  /\ Ids(entries) = <<1, 2, 3>>
  /\ "description" \in DOMAIN entries[1]
  /\ editingEntry = <<>>
  /\ BoardFree

FontSizeOK(size) == size \in MIN_FONT_SIZE..MAX_FONT_SIZE

\* C27: the font size of the Edit modal and of the Shuffle modal stays within
\* 8 and 36 under numbers typed and the two buttons, and so does the
\* fontSize of every entry of the list.
C27_FontSizeBounds ==
  /\ FontSizeOK(fontSize)
  /\ editModal # <<>> => FontSizeOK(editModal[1].fontSize)
  /\ \A i \in 1..Len(entries) : FontSizeOK(entries[i].fontSize)

\* an entry was saved at the maximum, the Edit modal is open at the minimum
\* and the notification of the limit is shown
C27_Witness ==
  /\ \E i \in 1..Len(entries) : entries[i].fontSize = MAX_FONT_SIZE
  /\ editModal # <<>>
  /\ editModal[1].fontSize = MIN_FONT_SIZE
  /\ notificationVisible
  /\ notificationMessage = "Font size limited to minimum of 8px"

WidthOK(width) == width \in 300..1800

Distance(a, b) == IF a < b THEN b - a ELSE a - b

\* C28: the width of the Edit modal stays within 300 and 1800 under resize
\* drags, and so does the width of every entry of the list; during a drag
\* the width is no further from the width at the start of the drag than the
\* pointer is from where the drag started.
C28_WidthBounds ==
  /\ editModal # <<>> => WidthOK(editModal[1].width)
  /\ \A i \in 1..Len(entries) : WidthOK(entries[i].width)
  /\ resizing # <<>> =>
       Distance(editModal[1].width, resizing[1].startWidth)
         <= Distance(resizing[1].clientX, resizing[1].startX)

\* an entry was saved at the least width and a drag to the right has been
\* stopped at the greatest width
C28_Witness ==
  /\ \E i \in 1..Len(entries) : entries[i].width = 300
  /\ resizing # <<>>
  /\ editModal[1].width = 1800
  /\ resizing[1].startWidth + (resizing[1].clientX - resizing[1].startX) > 1800

\* C29: a notification stays visible until the timer its own trigger started
\* has run: the timers run in the order they were started, so while any
\* timer is pending the one of the latest trigger is, and the notification
\* is visible.
C29_NotificationOutlivesEarlierTimers == timers > 0 => notificationVisible

\* the cells of a grid, row after row
RECURSIVE Flatten(_)
Flatten(grid) == IF Len(grid) = 0 THEN <<>> ELSE grid[1] \o Flatten(Tail(grid))

\* six rows of seven cells that hold, row after row, firstDay empty cells,
\* the days 1..days and then empty cells only
GridOK(grid, firstDay, days) ==
  /\ Len(grid) = 6
  /\ \A i \in 1..Len(grid) : Len(grid[i]) = 7
  /\ \A p \in 1..Len(Flatten(grid)) :
       Flatten(grid)[p] = IF p > firstDay /\ p - firstDay <= days THEN p - firstDay ELSE 0
  /\ firstDay + days <= Len(Flatten(grid))

\* C30: for every month, of 28 to 31 days and first weekday 0 to 6, the grid
\* of generateMonthGrid has 6 rows of 7 cells whose non-empty cells are the
\* days 1 to the last in row-major order without a gap, day 1 in row 0 at
\* the column of the first weekday, and no day cut off; so has the grid of the
\* month the calendar shows.
C30_MonthGrid ==
  /\ GridOK(monthGrid, firstDayOf(calendarDate[1], calendarDate[2]),
            getDaysInMonth(calendarDate[1], calendarDate[2]))
  /\ \A firstDay \in 0..6, days \in 28..31 :
       GridOK(generateMonthGrid(firstDay, days), firstDay, days)

\* the calendar shows a month whose last days are in the sixth row
C30_Witness ==
  /\ calendarVisible
  /\ monthGrid[1][7] = 1
  /\ monthGrid[6][1] = 30
  /\ monthGrid[6][2] = 31

====
